---- MODULE Spec2Model ----
(***************************************************************************)
(* Model of RandomWordGenerator (src/RandomWordGenerator/Generator.cpp):   *)
(* a third-order character Markov model that is trained with analyzeWord / *)
(* analyzeText, frozen by finalize and sampled by generate.                *)
(*                                                                         *)
(* Characters are one-character strings.  A float is modelled by the       *)
(* rational it holds, a record [n, d] in lowest terms with d > 0: sums of  *)
(* whole numbers are rounded to the 24 significant bits of a float, which  *)
(* leaves the small weights of most runs exact, and the quotients          *)
(* cumulative / sum are kept as fractions.                                 *)
(*                                                                         *)
(* RandomWordGeneratorFactory (src/RandomWordGenerator/Factory.cpp), the   *)
(* dense-table variant with the stream operators, is modelled next to it   *)
(* with a one-letter alphabet in place of the 26 letters.                  *)
(***************************************************************************)
EXTENDS Integers, Sequences, FiniteSets, Bags, TLC

\* ---------------------------------------------------------------- bounds
MaxCalls == 2       \* number of analyzeWord / analyzeText calls in a run
MaxGenLen == 4      \* longest word generate is followed to
UDen == 4           \* random values are the multiples of 1/UDen in [0, 1)
MaxStreamOps == 2   \* number of operator<< / operator>> calls in a run

\* ------------------------------------------------------------ characters
TERMINATOR == "0"
Char == {"a", "b"}
Alphabets == {{"a", "b"}, {"a"}, {}}
Weights == {-1, 0, 1}
Symbol == Char \cup {TERMINATOR}

\* the words and texts the calls are made with: every string of at most two
\* characters, a text of two runs or a word of three symbols ("aba"), and a
\* word longer than the context ("aaaa"), which makes a context follow itself
Strings ==
    { <<>>,
      <<"a">>, <<"b">>,
      <<"a", "a">>, <<"a", "b">>, <<"b", "a">>, <<"b", "b">>,
      <<"a", "b", "a">>,
      <<"a", "a", "a", "a">> }
Draws == 0 .. (UDen - 1)

\* ---------------------------------------------------------------- floats
Abs(x) == IF x < 0 THEN -x ELSE x

RECURSIVE GCD(_, _)
GCD(x, y) == IF y = 0 THEN x ELSE GCD(y, x % y)

\* the float n / d, d > 0
Frac(n, d) ==
    LET g == GCD(Abs(n), d)
    IN  IF n = 0 THEN [n |-> 0, d |-> 1] ELSE [n |-> n \div g, d |-> d \div g]

Float(n) == [n |-> n, d |-> 1]

\* float has 24 significant bits: every whole number up to 2^24 in magnitude
\* is a float, a larger one is a float only if it is a multiple of the
\* spacing of the floats around it
FloatExact == 16777216

\* the spacing of the floats around a whole number a >= FloatExact
RECURSIVE Spacing(_)
Spacing(a) == IF a < 2 * FloatExact THEN 2 ELSE 2 * Spacing(a \div 2)

\* the float nearest to the whole number n, ties to the even significand
RoundWhole(n) ==
    IF Abs(n) <= FloatExact THEN n
    ELSE LET a == Abs(n)
             step == Spacing(a)
             q == a \div step
             r == a % step
             up == 2 * r > step \/ (2 * r = step /\ q % 2 = 1)
             v == (IF up THEN q + 1 ELSE q) * step
         IN  IF n < 0 THEN -v ELSE v

\* x + y as a float: a whole sum beyond 2^24 is rounded; the fractions of
\* the model are small and kept exact
FAdd(x, y) ==
    LET sum == Frac(x.n * y.d + y.n * x.d, x.d * y.d)
    IN  IF sum.d = 1 THEN Float(RoundWhole(sum.n)) ELSE sum
\* x * (1.0f / sum), sum a positive whole number
FScale(x, sum) == Frac(x.n, x.d * sum)
FLess(x, y) == x.n * y.d < y.n * x.d
FLeq(x, y) == x.n * y.d <= y.n * x.d
Zero == Float(0)
One == Float(1)

VARIABLES
    alphabet_,          \* the alphabet of valid characters (a set)
    transitionMatrix_,  \* State -> (char -> float), sparse
    cdfs_,              \* State -> sequence of Edge [c, p], sparse
    finalized_,         \* BOOLEAN
    pc,                 \* "idle", or "generate" while generate's loop runs
    word,               \* generate: the word built so far
    s,                  \* generate: the current State
    call,               \* the last call made: [op, arg, weight], and fin, the
                        \* value of finalized_ the call found
    ret,                \* what the last completed call returned
    ncalls,             \* number of analyzeWord / analyzeText calls made
    draws,              \* history: the last value randomFloat_ returned
    twin,               \* a second run of generate's loop, fed the values the
                        \* first one draws: [word, s, done]
    trained,            \* history: the bag of accepted training calls
                        \* [op, arg, weight]
    frequencies_,       \* factory: the table of frequencies, dense
    factory_cdfs_,      \* factory: cdfs_, the table of cumulative values, dense
    factory_finalized_, \* factory: finalized_
    oss,                \* the stream operator<< last wrote: [buf, fail]
    iss,                \* the stream operator>> last read: [buf, sp, fail, eof]
    nstream             \* number of operator<< / operator>> calls made

factoryVars == <<frequencies_, factory_cdfs_, factory_finalized_, oss, iss, nstream>>

vars == <<alphabet_, transitionMatrix_, cdfs_, finalized_, pc, word, s, call, ret, ncalls,
          draws, twin, trained, factoryVars>>

State0 == <<TERMINATOR, TERMINATOR, TERMINATOR>>
\* mutant: the oldest symbol is kept and the middle one dropped
Shift_KeepOldest(st, c) == <<st[1], st[3], c>>
Shift(st, c) == <<st[2], st[3], c>>
EmptyMap == [x \in {} |-> Zero]
NoCall == [op |-> "none", arg |-> <<>>, weight |-> 0, fin |-> FALSE]

inAlphabet(alphabet, c) == c \in alphabet

\* mutant: the weight is assigned to the entry, not added
Bump_Assign(tm, st, c, weight) ==
    LET row == IF st \in DOMAIN tm THEN tm[st] ELSE EmptyMap
        newRow == [x \in DOMAIN row \cup {c} |->
                      IF x = c THEN Float(weight) ELSE row[x]]
    IN  [k \in DOMAIN tm \cup {st} |-> IF k = st THEN newRow ELSE tm[k]]

\* ------------------------------------------------------------ analyzeWord
\* transitionMatrix_[st][c] += weight; operator[] creates a missing row or
\* entry with the value 0.0f
Bump(tm, st, c, weight) ==
    LET row == IF st \in DOMAIN tm THEN tm[st] ELSE EmptyMap
        old == IF c \in DOMAIN row THEN row[c] ELSE Zero
        newRow == [x \in DOMAIN row \cup {c} |->
                      IF x = c THEN FAdd(old, Float(weight)) ELSE row[x]]
    IN  [k \in DOMAIN tm \cup {st} |-> IF k = st THEN newRow ELSE tm[k]]

\* mutant: the transition to the terminator is recorded in the all-terminator
\* State
RECURSIVE WalkWord_EndAtStart(_, _, _, _, _)
WalkWord_EndAtStart(tm, wd, i, st, weight) ==
    IF i > Len(wd) THEN Bump(tm, State0, TERMINATOR, weight)
    ELSE WalkWord_EndAtStart(Bump(tm, st, wd[i], weight), wd, i + 1, Shift(st, wd[i]), weight)

\* the loop over the characters of the word from position i in State st,
\* followed by the implicit transition to the terminator
RECURSIVE WalkWord(_, _, _, _, _)
WalkWord(tm, wd, i, st, weight) ==
    IF i > Len(wd) THEN Bump(tm, st, TERMINATOR, weight)
    ELSE WalkWord(Bump(tm, st, wd[i], weight), wd, i + 1, Shift(st, wd[i]), weight)

\* mutant: only the first character is tested
AllInAlphabet_FirstOnly(alphabet, wd) == wd = <<>> \/ inAlphabet(alphabet, wd[1])

\* std::all_of(word, inAlphabet)
AllInAlphabet(alphabet, wd) == \A i \in 1 .. Len(wd) : inAlphabet(alphabet, wd[i])

\* mutant: the finalized flag is not tested
WordRejected_NoFinalizedCheck(alphabet, fin, wd) ==
    \/ wd = <<>>
    \/ ~AllInAlphabet(alphabet, wd)

\* the early returns of analyzeWord
WordRejected(alphabet, fin, wd) ==
    \/ wd = <<>>
    \/ fin
    \/ ~AllInAlphabet(alphabet, wd)

\* analyzeWord as a function of the object: the value returned and the
\* transition matrix it leaves
analyzeWordCall(alphabet, tm, fin, wd, weight) ==
    IF WordRejected(alphabet, fin, wd)
    THEN [ret |-> FALSE, tm |-> tm]
    ELSE [ret |-> TRUE, tm |-> WalkWord(tm, wd, 1, State0, weight)]

\* ------------------------------------------------------------ analyzeText
\* std::find_if(from, end, inAlphabet): index of the first alphabet character
\* at or after from, Len(text) + 1 for end()
RECURSIVE FindIf(_, _, _)
FindIf(alphabet, text, from) ==
    IF from > Len(text) THEN Len(text) + 1
    ELSE IF inAlphabet(alphabet, text[from]) THEN from
    ELSE FindIf(alphabet, text, from + 1)

\* mutant: the search stops at its first position
FindIfNot_Stop(alphabet, text, from) ==
    IF from > Len(text) THEN Len(text) + 1 ELSE from

\* std::find_if_not(from, end, inAlphabet)
RECURSIVE FindIfNot(_, _, _)
FindIfNot(alphabet, text, from) ==
    IF from > Len(text) THEN Len(text) + 1
    ELSE IF ~inAlphabet(alphabet, text[from]) THEN from
    ELSE FindIfNot(alphabet, text, from + 1)

\* text.substr(start, end - start), positions counted from 1
Substr(text, start, end) == SubSeq(text, start, end - 1)

\* the while loop of analyzeText, entered with start at the first character
\* of a word; the value of analyzeWord is ignored
RECURSIVE TextLoop(_, _, _, _, _, _)
TextLoop(alphabet, tm, fin, text, start, weight) ==
    IF start > Len(text) THEN tm
    ELSE LET end == FindIfNot(alphabet, text, start + 1)
             r == analyzeWordCall(alphabet, tm, fin, Substr(text, start, end), weight)
         IN  TextLoop(alphabet, r.tm, fin, text, FindIf(alphabet, text, end), weight)

\* mutant: a text without any word is reported as processed
analyzeTextCall_Permissive(alphabet, tm, fin, text, weight) ==
    IF text = <<>> \/ fin
    THEN [ret |-> FALSE, tm |-> tm]
    ELSE [ret |-> TRUE, tm |-> TextLoop(alphabet, tm, fin, text, FindIf(alphabet, text, 1), weight)]

analyzeTextCall(alphabet, tm, fin, text, weight) ==
    IF text = <<>> \/ fin
    THEN [ret |-> FALSE, tm |-> tm]
    ELSE LET start == FindIf(alphabet, text, 1)
         IN  IF start > Len(text)
             THEN [ret |-> FALSE, tm |-> tm]
             ELSE [ret |-> TRUE, tm |-> TextLoop(alphabet, tm, fin, text, start, weight)]

\* --------------------------------------------------------------- finalize
\* the orders in which a range-for can visit the keys of an unordered_map
Perms(S) ==
    {p \in [1 .. Cardinality(S) -> S] : \A x \in S : \E i \in DOMAIN p : p[i] = x}

\* one iteration order for every row of the transition matrix
RECURSIVE RowOrders(_, _)
RowOrders(tm, states) ==
    IF states = {} THEN {EmptyMap}
    ELSE LET st == CHOOSE x \in states : TRUE
         IN  {f @@ (st :> p) : f \in RowOrders(tm, states \ {st}), p \in Perms(DOMAIN tm[st])}

\* sum after the first i entries of the row, visited in the order ord
RECURSIVE PartialSum(_, _, _)
PartialSum(row, ord, i) ==
    IF i = 0 THEN Zero ELSE FAdd(PartialSum(row, ord, i - 1), row[ord[i]])

RowSum(row, ord) == PartialSum(row, ord, Len(ord))

\* mutant: the cumulative sums are never divided by the row sum
Normalize_Never(p, sum) == p

\* if (sum > 0.0f) ... p *= invSum
Normalize(p, sum) == IF FLess(Zero, sum) THEN FScale(p, sum.n) ELSE p

\* the CDF built for one row
RowCdf(row, ord) ==
    [i \in 1 .. Len(ord) |->
        [c |-> ord[i], p |-> Normalize(PartialSum(row, ord, i), RowSum(row, ord))]]

\* the row after finalize: probabilities when the sum is positive
RowProb(row, ord) == [c \in DOMAIN row |-> Normalize(row[c], RowSum(row, ord))]

finalizeCdfs(tm, orders) == [st \in DOMAIN tm |-> RowCdf(tm[st], orders[st])]
finalizeMatrix(tm, orders) == [st \in DOMAIN tm |-> RowProb(tm[st], orders[st])]

\* --------------------------------------------------------------- generate
FromDraw(u) == Frac(u, UDen)

\* std::upper_bound(first, first + len, selection, v < e.p) as the library's
\* binary search computes it; the value is an index, Len(cdf) + 1 for end()
RECURSIVE UpperBound(_, _, _, _)
UpperBound(cdf, first, len, selection) ==
    IF len <= 0 THEN first
    ELSE LET half == len \div 2
             middle == first + half
         IN  IF FLess(selection, cdf[middle].p)
             THEN UpperBound(cdf, first, half, selection)
             ELSE UpperBound(cdf, middle + 1, len - half - 1, selection)

\* mutant: a State without a CDF yields an alphabet symbol
next_NoRowSymbol(cdfs, st, u) ==
    IF st \notin DOMAIN cdfs THEN "a"
    ELSE LET cdf == cdfs[st]
         IN  IF cdf = <<>> THEN "a"
             ELSE LET pE == UpperBound(cdf, 1, Len(cdf), FromDraw(u))
                  IN  IF pE > Len(cdf) THEN cdf[Len(cdf)].c ELSE cdf[pE].c

\* next(rng, s), u the value randomFloat_(rng) draws
next(cdfs, st, u) ==
    IF st \notin DOMAIN cdfs THEN TERMINATOR
    ELSE LET cdf == cdfs[st]
         IN  IF cdf = <<>> THEN TERMINATOR
             ELSE LET pE == UpperBound(cdf, 1, Len(cdf), FromDraw(u))
                  IN  IF pE > Len(cdf) THEN cdf[Len(cdf)].c ELSE cdf[pE].c

\* next draws a random value only when the State has a non-empty CDF
NextDraws(cdfs, st) ==
    IF st \in DOMAIN cdfs /\ cdfs[st] # <<>> THEN Draws ELSE {0}

\* ---------------------------------------------------------------- factory
\* the factory's alphabet, one letter in place of "abcdefghijklmnopqrstuvwxyz"
ALPHABET == <<"a">>
ALPHABET_SIZE == Len(ALPHABET)
\* the factory's terminator is the index after the letters
TERMINATOR_INDEX == ALPHABET_SIZE
npos == -1

\* ALPHABET.find(c): the zero-based position of c, or npos
Find(c) ==
    IF \E i \in 1 .. Len(ALPHABET) : ALPHABET[i] = c
    THEN (CHOOSE i \in 1 .. Len(ALPHABET) : ALPHABET[i] = c) - 1
    ELSE npos

\* float [ALPHABET_SIZE + 1] four times over
Index == 0 .. ALPHABET_SIZE
Cells == Index \X Index \X Index \X Index
NCells == Cardinality(Cells)

\* the place of a cell in the order of the loops over i, j, k, m, from 1
PosOf(cell) ==
    ((cell[1] * (ALPHABET_SIZE + 1) + cell[2]) * (ALPHABET_SIZE + 1) + cell[3])
       * (ALPHABET_SIZE + 1) + cell[4] + 1
CellAt(q) == CHOOSE cell \in Cells : PosOf(cell) = q

\* the value of a float that was never written
Uninit == [n |-> 0, d |-> 0]
ZeroTable == [cell \in Cells |-> Zero]
UninitTable == [cell \in Cells |-> Uninit]

\* frequencies_[c0][c1][c2][c] += factor
AddAt(freq, cell, factor) == [freq EXCEPT ![cell] = FAdd(@, Float(factor))]

RECURSIVE FactoryWalk(_, _, _, _, _, _, _)
FactoryWalk(freq, wd, i, c0, c1, c2, factor) ==
    IF i > Len(wd)
    THEN AddAt(freq, <<c0, c1, c2, TERMINATOR_INDEX>>, factor)
    ELSE LET c == Find(wd[i])
         IN  FactoryWalk(AddAt(freq, <<c0, c1, c2, c>>, factor), wd, i + 1, c1, c2, c, factor)

\* RandomWordGeneratorFactory::analyzeWord on the table freq and the flag fin
factoryAnalyzeWordCall(freq, fin, wd, factor) ==
    IF Len(wd) = 0 \/ \E i \in 1 .. Len(wd) : Find(wd[i]) = npos
    THEN [ret |-> FALSE, freq |-> freq, fin |-> fin]
    ELSE [ret |-> TRUE,
          freq |-> FactoryWalk(freq, wd, 1, TERMINATOR_INDEX, TERMINATOR_INDEX,
                               TERMINATOR_INDEX, factor),
          fin |-> FALSE]

\* while (start < end_of_text && ALPHABET.find(*start) == npos) ++start
RECURSIVE SkipSeparators(_, _)
SkipSeparators(text, start) ==
    IF start <= Len(text) /\ Find(text[start]) = npos
    THEN SkipSeparators(text, start + 1)
    ELSE start

\* while (end < end_of_text && ALPHABET.find(*end) != npos) ++end
RECURSIVE WordEnd(_, _)
WordEnd(text, end) ==
    IF end <= Len(text) /\ Find(text[end]) # npos
    THEN WordEnd(text, end + 1)
    ELSE end

RECURSIVE FactoryTextLoop(_, _, _, _, _)
FactoryTextLoop(freq, fin, text, start, factor) ==
    IF start > Len(text) THEN [freq |-> freq, fin |-> fin]
    ELSE LET end == WordEnd(text, start + 1)
             r == factoryAnalyzeWordCall(freq, fin, SubSeq(text, start, end - 1), factor)
         IN  FactoryTextLoop(r.freq, r.fin, text, SkipSeparators(text, end), factor)

\* RandomWordGeneratorFactory::analyzeText
factoryAnalyzeTextCall(freq, fin, text, factor) ==
    IF Len(text) = 0
    THEN [ret |-> FALSE, freq |-> freq, fin |-> fin]
    ELSE LET r == FactoryTextLoop(freq, fin, text, SkipSeparators(text, 1), factor)
         IN  [ret |-> TRUE, freq |-> r.freq, fin |-> r.fin]

\* c after the iterations 0 .. m of c += dist[m], for the row of <<i, j, k>>
RECURSIVE Cumulative(_, _, _)
Cumulative(freq, ctx, m) ==
    IF m < 0 THEN Zero
    ELSE FAdd(Cumulative(freq, ctx, m - 1), freq[<<ctx[1], ctx[2], ctx[3], m>>])

\* c / sum, sum > 0
FDiv(c, sum) == Frac(c.n * sum.d, c.d * sum.n)

\* mutant: the branch for a sum that is not positive writes 0 at every index
factoryFinalizeCdfs_ZeroRow(freq) ==
    [cell \in Cells |->
        LET ctx == <<cell[1], cell[2], cell[3]>>
            sum == Cumulative(freq, ctx, ALPHABET_SIZE)
        IN  IF FLess(Zero, sum)
            THEN FDiv(Cumulative(freq, ctx, cell[4]), sum)
            ELSE Zero]

\* the table RandomWordGeneratorFactory::finalize leaves in cdfs_
factoryFinalizeCdfs(freq) ==
    [cell \in Cells |->
        LET ctx == <<cell[1], cell[2], cell[3]>>
            sum == Cumulative(freq, ctx, ALPHABET_SIZE)
        IN  IF FLess(Zero, sum)
            THEN FDiv(Cumulative(freq, ctx, cell[4]), sum)
            ELSE IF cell[4] < ALPHABET_SIZE THEN Zero ELSE One]

\* a token of a stream: the text of a number, or text that is no number
Num(v) == [t |-> "num", v |-> v]
NoNumber == [t |-> "bad", v |-> Zero]

RECURSIVE Pow10(_)
Pow10(e) == IF e = 0 THEN 1 ELSE 10 * Pow10(e - 1)

\* the number of decimals that gives a value below 100000 six significant digits
RECURSIVE Decimals(_, _, _)
Decimals(n, d, e) == IF n * Pow10(e) >= 100000 * d THEN e ELSE Decimals(n, d, e + 1)

\* s << x: the decimal text of x with the stream's precision of six
\* significant digits, given as the number the text denotes
Format(x) ==
    IF x.n = 0 THEN Num(Zero)
    ELSE LET e == Decimals(Abs(x.n), x.d, 0)
             m == (2 * Abs(x.n) * Pow10(e) + x.d) \div (2 * x.d)
         IN  Num(Frac(IF x.n < 0 THEN -m ELSE m, Pow10(e)))

\* operator<<: the tokens written, each followed by a blank
insertTokens(freq) == [q \in 1 .. NCells |-> Format(freq[CellAt(q)])]

\* the value an uninitialized float p holds at iteration q: ind.v up to
\* iteration ind.r, a value outside [0, 1] from there on
Indeterminate(ind, q) == IF q < ind.r THEN ind.v ELSE Float(2)

\* one s >> p: the value of p and the stream state after it.  input.sp tells
\* whether a blank follows the last token
Extraction(input, q, fail, ind) ==
    IF fail
    THEN [p |-> Indeterminate(ind, q), fail |-> TRUE, eof |-> FALSE]
    ELSE IF q > Len(input.buf)
         THEN [p |-> Indeterminate(ind, q), fail |-> TRUE, eof |-> TRUE]
         ELSE IF input.buf[q].t = "bad"
              THEN [p |-> Zero, fail |-> TRUE, eof |-> FALSE]
              ELSE [p |-> input.buf[q].v, fail |-> FALSE,
                    eof |-> (q = Len(input.buf) /\ ~input.sp)]

\* operator>> from iteration q on: the table and the stream state it leaves
RECURSIVE extractLoop(_, _, _, _, _)
extractLoop(cdfs, input, q, fail, ind) ==
    IF q > NCells THEN [cdfs |-> cdfs, fail |-> fail, eof |-> FALSE]
    ELSE LET x == Extraction(input, q, fail, ind)
         IN  IF x.eof \/ FLess(x.p, Zero) \/ FLess(One, x.p)
             THEN [cdfs |-> cdfs, fail |-> x.fail, eof |-> x.eof]
             ELSE extractLoop([cdfs EXCEPT ![CellAt(q)] = x.p], input, q + 1, x.fail, ind)

\* the streams operator>> is given: what operator<< wrote, whole, ended
\* before token k, ended right after the last digit of token k, or with
\* token k replaced by text that is no number or by a number outside [0, 1],
\* k the first, the second, a middle or the last position
Replace(buf, k, tok) == [buf EXCEPT ![k] = tok]
Positions(buf) == {1, 2, Len(buf) \div 2 + 1, Len(buf)} \cap (1 .. Len(buf))
Inputs(buf) ==
    {[buf |-> buf, sp |-> TRUE]}
      \cup {[buf |-> SubSeq(buf, 1, k - 1), sp |-> TRUE] : k \in Positions(buf)}
      \cup {[buf |-> SubSeq(buf, 1, k), sp |-> FALSE] : k \in Positions(buf)}
      \cup {[buf |-> Replace(buf, k, tok), sp |-> TRUE] :
               k \in Positions(buf), tok \in {NoNumber, Num(Float(2)), Num(Float(-1))}}

\* the values the uninitialized p can show after the stream has failed: out
\* of range at once, or the same value in range to the end of the loop
Indeterminates(input) ==
    IF \E k \in 1 .. Len(input.buf) : input.buf[k].t = "bad"
    THEN {[r |-> 0, v |-> Zero], [r |-> NCells + 1, v |-> Zero], [r |-> NCells + 1, v |-> One]}
    ELSE {[r |-> NCells + 1, v |-> Zero]}

\* ---------------------------------------------------------------- actions
Init ==
    /\ alphabet_ \in Alphabets
    /\ transitionMatrix_ = EmptyMap
    /\ cdfs_ = EmptyMap
    /\ finalized_ = FALSE
    /\ pc = "idle"
    /\ word = <<>>
    /\ s = State0
    /\ call = NoCall
    /\ ret = FALSE
    /\ ncalls = 0
    /\ draws = <<>>
    /\ twin = [word |-> <<>>, s |-> State0, done |-> TRUE]
    /\ trained = EmptyBag
    /\ frequencies_ = ZeroTable
    /\ factory_cdfs_ = UninitTable
    /\ factory_finalized_ = FALSE
    /\ oss = [buf |-> <<>>, fail |-> FALSE]
    /\ iss = [buf |-> <<>>, sp |-> TRUE, fail |-> FALSE, eof |-> FALSE]
    /\ nstream = 0

analyzeWord(wd, weight) ==
    /\ pc = "idle"
    /\ ncalls < MaxCalls
    /\ LET r == analyzeWordCall(alphabet_, transitionMatrix_, finalized_, wd, weight)
       IN  /\ transitionMatrix_' = r.tm
           /\ ret' = r.ret
    /\ call' = [op |-> "analyzeWord", arg |-> wd, weight |-> weight, fin |-> finalized_]
    /\ ncalls' = ncalls + 1
    /\ UNCHANGED <<alphabet_, cdfs_, finalized_, pc, word, s>>
    /\ UNCHANGED <<draws, twin, trained, factoryVars>>

\* mutant: analyzeText creates a CDF row for every context it has trained
analyzeText_BuildsRows(text, weight) ==
    /\ pc = "idle"
    /\ ncalls < MaxCalls
    /\ LET r == analyzeTextCall(alphabet_, transitionMatrix_, finalized_, text, weight)
       IN  /\ transitionMatrix_' = r.tm
           /\ ret' = r.ret
           /\ cdfs_' = IF finalized_ THEN cdfs_ ELSE [st \in DOMAIN r.tm |-> <<>>]
    /\ call' = [op |-> "analyzeText", arg |-> text, weight |-> weight, fin |-> finalized_]
    /\ ncalls' = ncalls + 1
    /\ UNCHANGED <<alphabet_, finalized_, pc, word, s>>
    /\ UNCHANGED <<draws, twin, trained, factoryVars>>

analyzeText(text, weight) ==
    /\ pc = "idle"
    /\ ncalls < MaxCalls
    /\ LET r == analyzeTextCall(alphabet_, transitionMatrix_, finalized_, text, weight)
       IN  /\ transitionMatrix_' = r.tm
           /\ ret' = r.ret
    /\ call' = [op |-> "analyzeText", arg |-> text, weight |-> weight, fin |-> finalized_]
    /\ ncalls' = ncalls + 1
    /\ UNCHANGED <<alphabet_, cdfs_, finalized_, pc, word, s>>
    /\ UNCHANGED <<draws, twin, trained, factoryVars>>

\* the iteration orders finalize can meet in the current state
FinalizeOrders == RowOrders(transitionMatrix_, DOMAIN transitionMatrix_)

\* mutant: the finalized flag is not tested, the CDFs are built again
doFinalize_Again ==
    \E orders \in FinalizeOrders :
        /\ cdfs_' = finalizeCdfs(transitionMatrix_, orders)
        /\ transitionMatrix_' = finalizeMatrix(transitionMatrix_, orders)
        /\ finalized_' = TRUE

\* mutant: an empty transition matrix is left unfinalized
doFinalize_SkipEmpty ==
    IF finalized_ \/ transitionMatrix_ = EmptyMap
    THEN UNCHANGED <<transitionMatrix_, cdfs_, finalized_>>
    ELSE doFinalize_Again

\* the body of finalize: a no-op on a finalized generator
doFinalize ==
    IF finalized_
    THEN UNCHANGED <<transitionMatrix_, cdfs_, finalized_>>
    ELSE \E orders \in FinalizeOrders :
            /\ cdfs_' = finalizeCdfs(transitionMatrix_, orders)
            /\ transitionMatrix_' = finalizeMatrix(transitionMatrix_, orders)
            /\ finalized_' = TRUE

finalize ==
    /\ pc = "idle"
    /\ doFinalize
    /\ call' = [op |-> "finalize", arg |-> <<>>, weight |-> 0, fin |-> finalized_]
    /\ UNCHANGED <<alphabet_, pc, word, s, ret, ncalls>>
    /\ UNCHANGED <<draws, twin, trained, factoryVars>>

\* mutant: generate does not finalize
generate_NoFinalize ==
    /\ pc = "idle"
    /\ UNCHANGED <<transitionMatrix_, cdfs_, finalized_>>
    /\ word' = <<>>
    /\ s' = State0
    /\ pc' = "generate"
    /\ call' = [op |-> "generate", arg |-> <<>>, weight |-> 0, fin |-> finalized_]
    /\ UNCHANGED <<alphabet_, ret, ncalls>>
    /\ UNCHANGED <<draws, twin, trained, factoryVars>>

\* generate up to the first evaluation of the loop condition
generate ==
    /\ pc = "idle"
    /\ doFinalize
    /\ word' = <<>>
    /\ s' = State0
    /\ pc' = "generate"
    /\ call' = [op |-> "generate", arg |-> <<>>, weight |-> 0, fin |-> finalized_]
    /\ UNCHANGED <<alphabet_, ret, ncalls>>
    /\ UNCHANGED <<draws, twin, trained, factoryVars>>

\* mutant: the character is appended before the loop condition is tested
generateStep_AppendFirst ==
    /\ pc = "generate"
    /\ \E u \in NextDraws(cdfs_, s) :
          LET c == next(cdfs_, s, u)
          IN  /\ Len(word) < MaxGenLen
              /\ word' = Append(word, c)
              /\ s' = Shift(s, c)
              /\ pc' = IF c = TERMINATOR THEN "idle" ELSE pc
    /\ UNCHANGED <<alphabet_, transitionMatrix_, cdfs_, finalized_, call, ret, ncalls>>
    /\ UNCHANGED <<draws, twin, trained, factoryVars>>

\* mutant: the State is not advanced after a character is appended
generateStep_NoShift ==
    /\ pc = "generate"
    /\ \E u \in NextDraws(cdfs_, s) :
          LET c == next(cdfs_, s, u)
          IN  IF c = TERMINATOR
              THEN /\ pc' = "idle"
                   /\ UNCHANGED <<word, s>>
              ELSE /\ Len(word) < MaxGenLen
                   /\ word' = Append(word, c)
                   /\ UNCHANGED <<s, pc>>
    /\ UNCHANGED <<alphabet_, transitionMatrix_, cdfs_, finalized_, call, ret, ncalls>>
    /\ UNCHANGED <<draws, twin, trained, factoryVars>>

\* one evaluation of c = next(rng, s) and of the loop body; the word is
\* returned when c is the terminator
generateStep ==
    /\ pc = "generate"
    /\ \E u \in NextDraws(cdfs_, s) :
          LET c == next(cdfs_, s, u)
          IN  IF c = TERMINATOR
              THEN /\ pc' = "idle"
                   /\ UNCHANGED <<word, s>>
              ELSE /\ Len(word) < MaxGenLen
                   /\ word' = Append(word, c)
                   /\ s' = Shift(s, c)
                   /\ pc' = pc
    /\ UNCHANGED <<alphabet_, transitionMatrix_, cdfs_, finalized_, call, ret, ncalls>>
    /\ UNCHANGED <<draws, twin, trained, factoryVars>>

\* one iteration of generate's loop on the run [word, s, done], from the
\* CDFs and the random value u alone
LoopStep(cdfs, run, u) ==
    LET c == next(cdfs, run.s, u)
    IN  IF c = TERMINATOR
        THEN [run EXCEPT !.done = TRUE]
        ELSE [word |-> Append(run.word, c), s |-> Shift(run.s, c), done |-> FALSE]

\* mutant: the State the previous generate call ended in is kept
generateTwin_KeepState ==
    /\ pc = "idle"
    /\ doFinalize
    /\ word' = <<>>
    /\ s' = s
    /\ pc' = "generate"
    /\ call' = [op |-> "generate", arg |-> <<>>, weight |-> 0, fin |-> finalized_]
    /\ twin' = [word |-> <<>>, s |-> State0, done |-> FALSE]
    /\ UNCHANGED <<alphabet_, ret, ncalls, draws, trained, factoryVars>>

\* generate as above; the second run starts as a first call of generate does
generateTwin ==
    /\ pc = "idle"
    /\ doFinalize
    /\ word' = <<>>
    /\ s' = State0
    /\ pc' = "generate"
    /\ call' = [op |-> "generate", arg |-> <<>>, weight |-> 0, fin |-> finalized_]
    /\ twin' = [word |-> <<>>, s |-> State0, done |-> FALSE]
    /\ UNCHANGED <<alphabet_, ret, ncalls, draws, trained, factoryVars>>

\* next consumes a random value only after it found a non-empty CDF
Consumes(cdfs, st) == st \in DOMAIN cdfs /\ cdfs[st] # <<>>

\* generateStep as above, the second run being fed the value the first draws
generateStepTwin ==
    /\ pc = "generate"
    /\ \E u \in NextDraws(cdfs_, s) :
          LET c == next(cdfs_, s, u)
          IN  /\ IF c = TERMINATOR
                 THEN /\ pc' = "idle"
                      /\ UNCHANGED <<word, s>>
                 ELSE /\ Len(word) < MaxGenLen
                      /\ word' = Append(word, c)
                      /\ s' = Shift(s, c)
                      /\ pc' = pc
              /\ twin' = LoopStep(cdfs_, twin, u)
    /\ UNCHANGED <<alphabet_, transitionMatrix_, cdfs_, finalized_, call, ret, ncalls>>
    /\ UNCHANGED <<draws, trained, factoryVars>>

Next ==
    \/ \E wd \in Strings, weight \in Weights : analyzeWord(wd, weight)
    \/ \E text \in Strings, weight \in Weights : analyzeText(text, weight)
    \/ finalize
    \/ generate
    \/ generateStep

Spec == Init /\ [][Next]_vars

\* the same program, every generate call accompanied by a second run of the
\* loop that is fed the same random values
NextTwin ==
    \/ \E wd \in Strings, weight \in Weights : analyzeWord(wd, weight)
    \/ \E text \in Strings, weight \in Weights : analyzeText(text, weight)
    \/ finalize
    \/ generateTwin
    \/ generateStepTwin

SpecTwin == Init /\ [][NextTwin]_vars

\* generate under fair random draws, for a generator constructed with the
\* alphabet "a".  The training inputs are the few that put a row with a
\* non-positive sum behind rows with positive sums ('b' separates the words of
\* a text); the loop is followed beyond MaxGenLen characters, of which the
\* word recorded here keeps the first MaxGenLen, and draws keeps the last
\* random value consumed.
\* analyzeWord, analyzeText as above; an accepted call is added to the bag
\* of accepted calls
analyzeWordTrained(wd, weight) ==
    /\ pc = "idle"
    /\ ncalls < MaxCalls
    /\ LET r == analyzeWordCall(alphabet_, transitionMatrix_, finalized_, wd, weight)
       IN  /\ transitionMatrix_' = r.tm
           /\ ret' = r.ret
           /\ trained' = IF r.ret
                         THEN trained (+) SetToBag({[op |-> "analyzeWord", arg |-> wd, weight |-> weight]})
                         ELSE trained
    /\ call' = [op |-> "analyzeWord", arg |-> wd, weight |-> weight, fin |-> finalized_]
    /\ ncalls' = ncalls + 1
    /\ UNCHANGED <<alphabet_, cdfs_, finalized_, pc, word, s>>
    /\ UNCHANGED <<draws, twin, factoryVars>>

analyzeTextTrained(text, weight) ==
    /\ pc = "idle"
    /\ ncalls < MaxCalls
    /\ LET r == analyzeTextCall(alphabet_, transitionMatrix_, finalized_, text, weight)
       IN  /\ transitionMatrix_' = r.tm
           /\ ret' = r.ret
           /\ trained' = IF r.ret
                         THEN trained (+) SetToBag({[op |-> "analyzeText", arg |-> text, weight |-> weight]})
                         ELSE trained
    /\ call' = [op |-> "analyzeText", arg |-> text, weight |-> weight, fin |-> finalized_]
    /\ ncalls' = ncalls + 1
    /\ UNCHANGED <<alphabet_, cdfs_, finalized_, pc, word, s>>
    /\ UNCHANGED <<draws, twin, factoryVars>>

\* weights of the training calls of a run that records them: small ones and
\* one at the end of the whole numbers a float holds exactly
TrainedWeights == {-1, 1, FloatExact}

NextTrained ==
    \/ \E wd \in Strings, weight \in TrainedWeights : analyzeWordTrained(wd, weight)
    \/ \E text \in Strings, weight \in TrainedWeights : analyzeTextTrained(text, weight)
    \/ finalize

SpecTrained == Init /\ [][NextTrained]_vars

LiveStrings ==
    { <<"a">>,
      <<"a", "a", "a", "a">>,
      <<"a", "a", "a", "a", "a", "a">>,
      <<"a", "a", "a", "a", "b", "a", "a", "a", "a", "b", "a">> }

InitLive == Init /\ alphabet_ = {"a"}

generateStepLive(st, u) ==
    /\ pc = "generate"
    /\ s = st
    /\ u \in NextDraws(cdfs_, s)
    /\ LET c == next(cdfs_, s, u)
       IN  IF c = TERMINATOR
           THEN /\ pc' = "idle"
                /\ UNCHANGED <<word, s>>
           ELSE /\ word' = IF Len(word) < MaxGenLen THEN Append(word, c) ELSE word
                /\ s' = Shift(s, c)
                /\ pc' = pc
    /\ draws' = IF Consumes(cdfs_, s) THEN <<u>> ELSE draws
    /\ UNCHANGED <<alphabet_, transitionMatrix_, cdfs_, finalized_, call, ret, ncalls>>
    /\ UNCHANGED <<twin, trained, factoryVars>>

NextLive ==
    \/ \E wd \in LiveStrings, weight \in Weights : analyzeWord(wd, weight)
    \/ \E text \in LiveStrings, weight \in Weights : analyzeText(text, weight)
    \/ finalize
    \/ generate
    \/ \E st \in Symbol \X Symbol \X Symbol, u \in Draws : generateStepLive(st, u)

\* fair random draws: the loop goes on, and a value that can be drawn again and
\* again in a State is drawn there.  A State that holds a terminator is left
\* for good by the step taken in it, so the second condition bears on the
\* States made of alphabet characters only.
FairDraws ==
    /\ WF_vars(\E st \in Symbol \X Symbol \X Symbol, u \in Draws : generateStepLive(st, u))
    /\ \A st \in {"a"} \X {"a"} \X {"a"}, u \in Draws : SF_vars(generateStepLive(st, u))

SpecLive == InitLive /\ [][NextLive]_vars /\ FairDraws

\* --------------------------------------------------------- factory actions
genVars == <<alphabet_, transitionMatrix_, cdfs_, finalized_, pc, word, s, draws, twin,
            trained>>

InitFactory == Init /\ alphabet_ = {"a"}

factoryAnalyzeWord(wd, factor) ==
    /\ ncalls < MaxCalls
    /\ LET r == factoryAnalyzeWordCall(frequencies_, factory_finalized_, wd, factor)
       IN  /\ frequencies_' = r.freq
           /\ factory_finalized_' = r.fin
           /\ ret' = r.ret
    /\ call' = [op |-> "analyzeWord", arg |-> wd, weight |-> factor, fin |-> factory_finalized_]
    /\ ncalls' = ncalls + 1
    /\ UNCHANGED <<genVars, factory_cdfs_, oss, iss, nstream>>

factoryAnalyzeText(text, factor) ==
    /\ ncalls < MaxCalls
    /\ LET r == factoryAnalyzeTextCall(frequencies_, factory_finalized_, text, factor)
       IN  /\ frequencies_' = r.freq
           /\ factory_finalized_' = r.fin
           /\ ret' = r.ret
    /\ call' = [op |-> "analyzeText", arg |-> text, weight |-> factor, fin |-> factory_finalized_]
    /\ ncalls' = ncalls + 1
    /\ UNCHANGED <<genVars, factory_cdfs_, oss, iss, nstream>>

\* create: finalize unless finalized; the generator it returns is built from
\* cdfs_
create ==
    /\ factory_cdfs_' = IF factory_finalized_ THEN factory_cdfs_
                        ELSE factoryFinalizeCdfs(frequencies_)
    /\ factory_finalized_' = TRUE
    /\ call' = [op |-> "create", arg |-> <<>>, weight |-> 0, fin |-> factory_finalized_]
    /\ UNCHANGED <<genVars, ret, ncalls, frequencies_, oss, iss, nstream>>

\* operator<<(s, f) on a fresh string stream
insert ==
    /\ nstream < MaxStreamOps
    /\ oss' = [buf |-> insertTokens(frequencies_), fail |-> FALSE]
    /\ call' = [op |-> "insert", arg |-> <<>>, weight |-> 0, fin |-> factory_finalized_]
    /\ nstream' = nstream + 1
    /\ UNCHANGED <<genVars, ret, ncalls, frequencies_, factory_cdfs_, factory_finalized_, iss>>

\* operator>>(s, g) on one of the streams it can be given
extract ==
    /\ nstream < MaxStreamOps
    /\ \E input \in Inputs(oss.buf) :
          \E ind \in Indeterminates(input) :
             LET r == extractLoop(factory_cdfs_, input, 1, FALSE, ind)
             IN  /\ factory_cdfs_' = r.cdfs
                 /\ iss' = [buf |-> input.buf, sp |-> input.sp, fail |-> r.fail, eof |-> r.eof]
    /\ call' = [op |-> "extract", arg |-> <<>>, weight |-> 0, fin |-> factory_finalized_]
    /\ nstream' = nstream + 1
    /\ UNCHANGED <<genVars, ret, ncalls, frequencies_, factory_finalized_, oss>>

NextFactory ==
    \/ \E wd \in Strings, factor \in Weights : factoryAnalyzeWord(wd, factor)
    \/ \E text \in Strings, factor \in Weights : factoryAnalyzeText(text, factor)
    \/ create
    \/ insert
    \/ extract

SpecFactory == InitFactory /\ [][NextFactory]_vars

\* the factory without its stream operators: training and create
NextCreate ==
    \/ \E wd \in Strings, factor \in Weights : factoryAnalyzeWord(wd, factor)
    \/ \E text \in Strings, factor \in Weights : factoryAnalyzeText(text, factor)
    \/ create

SpecCreate == InitFactory /\ [][NextCreate]_vars

\* ------------------------------------------------------- claims: training
\* a step that is a call of analyzeWord, of analyzeText
IsAnalyzeWord == call'.op = "analyzeWord" /\ ncalls' = ncalls + 1
IsAnalyzeText == call'.op = "analyzeText" /\ ncalls' = ncalls + 1

HasInvalidChar(wd) == \E i \in 1 .. Len(wd) : wd[i] \notin alphabet_
ValidWord(wd) == wd # <<>> /\ \A i \in 1 .. Len(wd) : wd[i] \in alphabet_

\* C1: analyzeWord returns false and leaves the frequency rows, the CDF rows
\* and the finalized flag as they were whenever the word is empty, holds a
\* character outside the alphabet (at any position), or the model is finalized.
C1_AnalyzeWordRejects ==
    [][(IsAnalyzeWord /\ (call'.arg = <<>> \/ HasInvalidChar(call'.arg) \/ finalized_))
          => (ret' = FALSE /\ UNCHANGED <<transitionMatrix_, cdfs_, finalized_>>)]_vars

\* a word whose invalid character follows a valid one was rejected by a
\* trained, unfinalized model
C1_Witness ==
    /\ call.op = "analyzeWord" /\ ~call.fin /\ ~finalized_
    /\ Len(call.arg) >= 2 /\ call.arg[1] \in alphabet_ /\ HasInvalidChar(call.arg)
    /\ ret = FALSE
    /\ transitionMatrix_ # EmptyMap

\* C2: for a non-empty word of alphabet symbols and any weight, analyzeWord
\* returns true before finalization and false after it.
C2_ValidWordAcceptedUntilFinalized ==
    [][(IsAnalyzeWord /\ ValidWord(call'.arg)) => (ret' = ~finalized_)]_vars

\* a valid word with a negative weight was refused by a finalized model that
\* had accepted a word before
C2_Witness ==
    /\ call.op = "analyzeWord" /\ call.fin /\ ValidWord(call.arg)
    /\ call.weight < 0 /\ ret = FALSE
    /\ ncalls = 2 /\ cdfs_ # EmptyMap

\* the symbol at position j of the word, the terminator outside the word
SymAt(wd, j) == IF j < 1 \/ j > Len(wd) THEN TERMINATOR ELSE wd[j]
\* the context in which position i of the word is met
ContextAt(wd, i) == <<SymAt(wd, i - 3), SymAt(wd, i - 2), SymAt(wd, i - 1)>>
\* the positions 1 .. Len + 1 of the word at which symbol c is met in context k
Occurrences(wd, k, c) ==
    {i \in 1 .. (Len(wd) + 1) : ContextAt(wd, i) = k /\ SymAt(wd, i) = c}
Present(tm, k, c) == k \in DOMAIN tm /\ c \in DOMAIN tm[k]
Entry(tm, k, c) == IF Present(tm, k, c) THEN tm[k][c] ELSE Zero
AllStates == Symbol \X Symbol \X Symbol

\* C3: a successful analyzeWord(word, weight) adds weight to the entry
\* (context -> symbol) once for every position of the word, the terminator
\* after the last one included, the context being the three symbols before the
\* position, terminator-padded; no other entry changes.
C3_AnalyzeWordEffect ==
    [][(IsAnalyzeWord /\ ret' = TRUE) =>
          \A k \in AllStates, c \in Symbol :
             LET n == Cardinality(Occurrences(call'.arg, k, c))
             IN  /\ Entry(transitionMatrix_', k, c)
                      = FAdd(Entry(transitionMatrix_, k, c), Float(n * call'.weight))
                 /\ Present(transitionMatrix_', k, c)
                      <=> (Present(transitionMatrix_, k, c) \/ n > 0)]_vars

\* a word of three symbols with a negative weight was added to a trained model
C3_Witness ==
    /\ call.op = "analyzeWord" /\ ret = TRUE
    /\ Len(call.arg) = 3 /\ call.weight < 0
    /\ ncalls = 2
    /\ Cardinality(DOMAIN transitionMatrix_) >= 4

\* [i, j] is a maximal run of alphabet characters of the text
IsRun(text, i, j) ==
    /\ i <= j
    /\ \A k \in i .. j : text[k] \in alphabet_
    /\ (i = 1 \/ text[i - 1] \notin alphabet_)
    /\ (j = Len(text) \/ text[j + 1] \notin alphabet_)
Runs(text) == {r \in (1 .. Len(text)) \X (1 .. Len(text)) : IsRun(text, r[1], r[2])}

\* analyzeWord applied to the runs, leftmost first
RECURSIVE ApplyRuns(_, _, _, _)
ApplyRuns(tm, text, runs, weight) ==
    IF runs = {} THEN tm
    ELSE LET r == CHOOSE x \in runs : \A y \in runs : x[1] <= y[1]
             res == analyzeWordCall(alphabet_, tm, FALSE, SubSeq(text, r[1], r[2]), weight)
         IN  ApplyRuns(res.tm, text, runs \ {r}, weight)

\* C4: on an unfinalized model the effect of analyzeText(text, w) on the
\* frequency rows is that of analyzeWord(run, w) for each maximal run of
\* alphabet characters of the text, from left to right.
C4_AnalyzeTextRuns ==
    [][(IsAnalyzeText /\ ~finalized_ /\ call'.arg # <<>>) =>
          /\ transitionMatrix_' = ApplyRuns(transitionMatrix_, call'.arg, Runs(call'.arg), call'.weight)
          /\ UNCHANGED <<cdfs_, finalized_>>]_vars

\* a text of two runs was analyzed
C4_Witness ==
    /\ call.op = "analyzeText" /\ ret = TRUE /\ ~finalized_
    /\ Cardinality(Runs(call.arg)) = 2
    /\ call.weight # 0

C6_FinalizedIsFrozen ==
    [][finalized_ => (finalized_' /\ UNCHANGED <<transitionMatrix_, cdfs_>>)]_vars

\* analyzeText was called with a text holding a word on a finalized, trained model
C6_Witness ==
    /\ finalized_ /\ call.fin
    /\ call.op = "analyzeText" /\ Runs(call.arg) # {}
    /\ cdfs_ # EmptyMap

\* C7: finalize is idempotent: a call of finalize on a finalized model leaves
\* the CDF rows (contexts, entries, order, values), the frequency rows and the
\* flag as the first call left them.
C7_FinalizeIdempotent ==
    [][(call'.op = "finalize" /\ call'.fin) =>
          (finalized_' /\ UNCHANGED <<cdfs_, transitionMatrix_, finalized_>>)]_vars

\* finalize was called again on a finalized model that has a row of two entries
C7_Witness ==
    /\ call.op = "finalize" /\ call.fin /\ finalized_
    /\ \E st \in DOMAIN cdfs_ : Len(cdfs_[st]) >= 2

\* the states finalize can leave when called in the current state
FinalizeOutcome ==
    \E orders \in FinalizeOrders :
        /\ cdfs_' = finalizeCdfs(transitionMatrix_, orders)
        /\ transitionMatrix_' = finalizeMatrix(transitionMatrix_, orders)

\* C8: generate finalizes an unfinalized model before it samples: the model is
\* finalized after any generate call, the CDF rows the word is drawn from are
\* rows that finalize builds from the frequency rows, and every analyzeWord or
\* analyzeText call made afterwards returns false.
C8_GenerateAutoFinalizes ==
    [][/\ call'.op = "generate" => finalized_'
       /\ (call'.op = "generate" /\ pc = "idle" /\ ~finalized_) => FinalizeOutcome
       /\ finalized_ => finalized_'
       /\ ((IsAnalyzeWord \/ IsAnalyzeText) /\ finalized_) => ret' = FALSE]_vars

\* generate, called on an unfinalized model, returned a word of two symbols
C8_Witness ==
    /\ call.op = "generate" /\ ~call.fin /\ finalized_
    /\ pc = "idle" /\ Len(word) >= 2

\* C9: finalize never fails: in every unfinalized state (empty model, rows of
\* zero, negative or cancelling weights) a call of finalize has an outcome, and
\* the model is finalized when finalize has returned.
C9_FinalizeTotal ==
    /\ (pc = "idle" /\ ~finalized_) => FinalizeOrders # {}
    /\ call.op = "finalize" => finalized_

\* finalize completed on a row whose weights cancel to the sum zero
C9_Witness ==
    /\ call.op = "finalize" /\ ~call.fin /\ finalized_
    /\ \E st \in DOMAIN cdfs_ :
          /\ cdfs_[st][Len(cdfs_[st])].p = Zero
          /\ \E c \in DOMAIN transitionMatrix_[st] : transitionMatrix_[st][c].n < 0

\* the cumulative values of a CDF row never decrease and end at 1.0
RowIsCdf(cdf) ==
    /\ \A i \in 1 .. (Len(cdf) - 1) : FLeq(cdf[i].p, cdf[i + 1].p)
    /\ cdf[Len(cdf)].p = One

\* C10: in every finalized state every CDF row present has non-decreasing
\* cumulative values and a final cumulative value equal to 1.0, whatever the
\* weights of the analyzeWord / analyzeText calls were.
C10_CdfRowsWellFormed ==
    finalized_ => \A st \in DOMAIN cdfs_ : RowIsCdf(cdfs_[st])

\* ----------------------------------------------------- claims: generation
\* generate has returned: word is the value returned
Returned == pc = "idle" /\ call.op = "generate"

\* the sum of the entries of a row
RECURSIVE SumOver(_, _)
SumOver(row, keys) ==
    IF keys = {} THEN Zero
    ELSE LET k == CHOOSE x \in keys : TRUE
         IN  FAdd(row[k], SumOver(row, keys \ {k}))
RowTotal(row) == SumOver(row, DOMAIN row)

\* C11: after finalize, a frequency row whose weight sum is <= 0 has a
\* terminator-only CDF row: it ends at probability 1.0 and next() selects the
\* terminator there for every random value.  (A row with a positive sum is
\* normalized to the sum 1, so the sign of the sum is that of the row as
\* finalize left it.)
C11_NonPositiveRowFallsBack ==
    finalized_ =>
       \A st \in DOMAIN cdfs_ :
          FLeq(RowTotal(transitionMatrix_[st]), Zero) =>
             /\ cdfs_[st][Len(cdfs_[st])].p = One
             /\ \A u \in Draws : next(cdfs_, st, u) = TERMINATOR

\* C12: every character of a word generate builds or returns is a member of
\* the alphabet the generator was constructed with; the terminator is never
\* part of it.
C12_WordInAlphabet ==
    \A i \in 1 .. Len(word) : word[i] \in alphabet_ /\ word[i] # TERMINATOR

\* a word of two different alphabet symbols was returned
C12_Witness ==
    /\ Returned
    /\ Len(word) >= 2 /\ word[1] # word[2]

\* C13: for all minLength <= maxLength with maxLength > 0, the length L of a
\* word generate returns satisfies minLength <= L <= maxLength.
C13_LengthBounds ==
    Returned =>
       \A minLength \in 1 .. MaxGenLen, maxLength \in 1 .. MaxGenLen :
          minLength <= maxLength => (minLength <= Len(word) /\ Len(word) <= maxLength)

\* the model holds the rows that single-character words with a positive total
\* weight leave: the start row, and a terminator-only row after each character
SingleCharModel ==
    /\ State0 \in DOMAIN transitionMatrix_
    /\ \A st \in DOMAIN transitionMatrix_ \ {State0} :
          /\ st[1] = TERMINATOR /\ st[2] = TERMINATOR
          /\ st[3] \in DOMAIN transitionMatrix_[State0]
          /\ DOMAIN transitionMatrix_[st] = {TERMINATOR}
    /\ \A st \in DOMAIN transitionMatrix_ :
          \A c \in DOMAIN transitionMatrix_[st] : FLess(Zero, transitionMatrix_[st][c])

\* C15: a model trained only on single-character words with positive weights
\* returns words of length exactly 1 whose character was trained, and no word
\* generate builds on it grows beyond one character.
C15_SingleCharWords ==
    (call.op = "generate" /\ SingleCharModel) =>
       /\ Len(word) <= 1
       /\ \A i \in 1 .. Len(word) : word[i] \in DOMAIN transitionMatrix_[State0]
       /\ Returned => Len(word) = 1

\* two different characters were trained and the second one was generated
C15_Witness ==
    /\ Returned /\ SingleCharModel
    /\ DOMAIN transitionMatrix_[State0] = {"a", "b"}
    /\ word = <<"b">>

C18_UntrainedWordNonEmpty ==
    (Returned /\ finalized_ /\ transitionMatrix_ = EmptyMap) => Len(word) >= 1

Selectable(cdfs, st) == {next(cdfs, st, u) : u \in NextDraws(cdfs, st)}

\* the States generate can come to from the States of R
RECURSIVE ReachableFrom(_, _)
ReachableFrom(cdfs, R) ==
    LET R2 == R \cup UNION {{Shift(st, c) : c \in Selectable(cdfs, st) \ {TERMINATOR}} : st \in R}
    IN  IF R2 = R THEN R ELSE ReachableFrom(cdfs, R2)

\* some State reachable from the all-terminator State yields the terminator
\* with nonzero probability
TerminatorReachable(cdfs) ==
    \E st \in ReachableFrom(cdfs, {State0}) : TERMINATOR \in Selectable(cdfs, st)

\* C14: under fair random draws, a generate call on a model in which some
\* State reachable from the all-terminator State has a nonzero terminator
\* probability eventually returns.
C14_GenerateReturns ==
    (pc = "generate" /\ TerminatorReachable(cdfs_)) ~> (pc = "idle")

\* C24: training never touches the CDF state: an unfinalized generator has
\* no CDF row at all, and an analyzeWord or analyzeText call on it, accepted
\* or rejected, leaves it without CDF rows and unfinalized.
C24_TrainingLeavesCdfs ==
    /\ [](~finalized_ => cdfs_ = EmptyMap)
    /\ [][((IsAnalyzeWord \/ IsAnalyzeText) /\ ~finalized_) =>
             (cdfs_' = EmptyMap /\ ~finalized_')]_vars

\* an accepted and then a rejected training call on an unfinalized generator
C24_Witness ==
    /\ ncalls = 2 /\ ~finalized_ /\ ~call.fin
    /\ call.op = "analyzeText" /\ ret = FALSE
    /\ transitionMatrix_ # EmptyMap
    /\ cdfs_ = EmptyMap

\* the symbol of the first entry of a row, in row order, whose cumulative
\* value is greater than v; the symbol of the last entry if there is none
FirstGreater(cdf, v) ==
    LET hits == {i \in 1 .. Len(cdf) : FLess(v, cdf[i].p)}
    IN  IF hits = {} THEN cdf[Len(cdf)].c
        ELSE cdf[CHOOSE i \in hits : \A j \in hits : i <= j].c

\* C25: in a State with a non-empty CDF row next returns, for every drawn
\* value, the symbol of the first entry in row order whose cumulative value
\* is greater than the value drawn, and the symbol of the last entry when
\* there is none; in a row of non-negative weights with a positive sum an
\* entry of weight 0 is never selected.
C25_NextSelectsFirstGreater ==
    finalized_ =>
       \A st \in DOMAIN cdfs_ :
          /\ \A u \in Draws :
                next(cdfs_, st, u) = FirstGreater(cdfs_[st], FromDraw(u))
          /\ (/\ \A c \in DOMAIN transitionMatrix_[st] :
                    FLeq(Zero, transitionMatrix_[st][c])
              /\ FLess(Zero, RowTotal(transitionMatrix_[st])))
             => \A u \in Draws :
                   transitionMatrix_[st][next(cdfs_, st, u)] # Zero

\* the sum of the weights of the first i entries of a CDF row, taken from
\* the frequency row
RECURSIVE WeightOfFirst(_, _, _)
WeightOfFirst(row, cdf, i) ==
    IF i = 0 THEN Zero ELSE FAdd(WeightOfFirst(row, cdf, i - 1), row[cdf[i].c])

\* the CDF row lists every next-symbol of the frequency row once, and with a
\* positive row sum its i-th cumulative value is the sum of the first i
\* weights divided by the sum of the row
CdfOfRow(cdf, row) ==
    /\ Len(cdf) = Cardinality(DOMAIN row)
    /\ {cdf[i].c : i \in 1 .. Len(cdf)} = DOMAIN row
    /\ FLess(Zero, RowTotal(row)) =>
          \A i \in 1 .. Len(cdf) :
             cdf[i].p = FDiv(WeightOfFirst(row, cdf, i), RowTotal(row))

\* C26: the step that finalizes builds a CDF row for exactly the contexts
\* that have a frequency row; each CDF row lists each next-symbol of its
\* frequency row once and, when the row sum is positive, holds as i-th value
\* the sum of the first i weights divided by the row's total weight; the
\* contexts with a CDF row stay those with a frequency row.
C26_FinalizeBuildsCdfs ==
    /\ [](finalized_ => DOMAIN cdfs_ = DOMAIN transitionMatrix_)
    /\ [][(~finalized_ /\ finalized_') =>
             /\ DOMAIN cdfs_' = DOMAIN transitionMatrix_
             /\ \A st \in DOMAIN transitionMatrix_ :
                   CdfOfRow(cdfs_'[st], transitionMatrix_[st])]_vars

\* finalize has built a row of two entries whose first cumulative value is a
\* proper fraction
C26_Witness ==
    /\ call.op = "finalize" /\ ~call.fin /\ finalized_
    /\ \E st \in DOMAIN cdfs_ :
          /\ Len(cdfs_[st]) = 2
          /\ cdfs_[st][1].p = Frac(1, 2)
          /\ cdfs_[st][2].p = One

\* every weight the model holds is positive
AllPositive(tm) ==
    \A st \in DOMAIN tm : \A c \in DOMAIN tm[st] : FLess(Zero, tm[st][c])

\* C27: on a generator trained by at least one accepted call, with positive
\* weights only, the row of the all-terminator State has no terminator entry
\* and generate never returns the empty word.
C27_TrainedWordNonEmpty ==
    (call.op = "generate" /\ transitionMatrix_ # EmptyMap /\ AllPositive(transitionMatrix_)) =>
       /\ State0 \in DOMAIN transitionMatrix_
       /\ TERMINATOR \notin DOMAIN transitionMatrix_[State0]
       /\ Returned => Len(word) >= 1

\* generate finalized a generator trained by two accepted calls of positive
\* weight and returned a word
C27_Witness ==
    /\ Returned /\ ~call.fin
    /\ ncalls = 2
    /\ AllPositive(transitionMatrix_)
    /\ State0 \in DOMAIN transitionMatrix_
    /\ Cardinality(DOMAIN transitionMatrix_[State0]) = 2
    /\ Len(word) = 1

\* C28: the word generate builds is a walk over trained transitions: every
\* symbol of it is a next-symbol of the frequency row of the context made of
\* the three symbols before it (terminators before the word); on a trained
\* model the context generate is in always has a row, and generate returns
\* only in a context whose row has a terminator entry.
C28_WordIsTrainedWalk ==
    (call.op = "generate" /\ transitionMatrix_ # EmptyMap) =>
       /\ \A i \in 1 .. Len(word) :
             Present(transitionMatrix_, ContextAt(word, i), word[i])
       /\ s = ContextAt(word, Len(word) + 1)
       /\ s \in DOMAIN transitionMatrix_
       /\ Returned => Present(transitionMatrix_, s, TERMINATOR)

\* a word of three symbols was returned by a generator trained with two
\* different words
C28_Witness ==
    /\ Returned
    /\ Len(word) = 3
    /\ State0 \in DOMAIN transitionMatrix_
    /\ Cardinality(DOMAIN transitionMatrix_[State0]) = 2
    /\ Present(transitionMatrix_, s, TERMINATOR)

\* the frequency rows an accepted call leaves, given those it found
Trains(alphabet, tm, c) ==
    IF c.op = "analyzeWord"
    THEN analyzeWordCall(alphabet, tm, FALSE, c.arg, c.weight).tm
    ELSE analyzeTextCall(alphabet, tm, FALSE, c.arg, c.weight).tm

\* the frequency rows the calls of a bag leave on tm, made one after the
\* other in an order fixed by the bag alone
RECURSIVE TrainsAll(_, _, _)
TrainsAll(alphabet, tm, bag) ==
    IF BagToSet(bag) = {} THEN tm
    ELSE LET c == CHOOSE x \in BagToSet(bag) : TRUE
         IN  TrainsAll(alphabet, Trains(alphabet, tm, c), bag (-) SetToBag({c}))

\* the bag with one call c1 and one call c2 replaced by a single call of the
\* sum of their weights
Merged(bag, c1, c2) ==
    ((bag (-) SetToBag({c1})) (-) SetToBag({c2}))
       (+) SetToBag({[c1 EXCEPT !.weight = c1.weight + c2.weight]})

\* two calls of the bag, with the same argument
SameArgument(bag, c1, c2) ==
    /\ c1.op = c2.op /\ c1.arg = c2.arg
    /\ IF c1 = c2 THEN CopiesIn(c1, bag) >= 2 ELSE TRUE

\* the rows are those the bag determines, and those of the bag with two
\* calls of the same argument merged into one
RowsOfBag ==
    /\ transitionMatrix_ = TrainsAll(alphabet_, EmptyMap, trained)
    /\ \A c1, c2 \in BagToSet(trained) :
          SameArgument(trained, c1, c2) =>
             transitionMatrix_ = TrainsAll(alphabet_, EmptyMap, Merged(trained, c1, c2))

\* C30: the frequency rows of an unfinalized generator are a function of
\* the bag of accepted analyzeWord / analyzeText calls, whatever the order
\* they were made in, and two accepted calls with the same argument and the
\* weights w1, w2 leave the rows that one call with weight w1 + w2 leaves.
C30_TrainingOrderIndependent == ~finalized_ => RowsOfBag

\* an upper bound of the magnitude any entry can reach by the calls of a
\* bag: every call adds its weight to an entry at most once per position
RECURSIVE Mass(_)
Mass(bag) ==
    IF BagToSet(bag) = {} THEN 0
    ELSE LET c == CHOOSE x \in BagToSet(bag) : TRUE
         IN  Abs(c.weight) * (Len(c.arg) + 1) + Mass(bag (-) SetToBag({c}))

\* C30, amended: as long as no sum of weights can leave the whole numbers a
\* float holds exactly, the frequency rows of an unfinalized generator are a
\* function of the bag of accepted calls, whatever their order, and two
\* accepted calls with the same argument and the weights w1, w2 leave the
\* rows that one call with weight w1 + w2 leaves.
C30_OrderIndependentWhenExact ==
    (~finalized_ /\ Mass(trained) <= FloatExact) => RowsOfBag

\* the same word of two characters was analyzed twice, by two accepted calls
\* with different weights
C30_Witness ==
    /\ ~finalized_
    /\ BagCardinality(trained) = 2
    /\ Mass(trained) <= FloatExact
    /\ \E c1, c2 \in BagToSet(trained) :
          /\ c1 # c2 /\ SameArgument(trained, c1, c2)
          /\ c1.op = "analyzeWord" /\ Len(c1.arg) = 2
          /\ c1.weight = 1 /\ c2.weight = -1

\* ------------------------------------------------------ claims: the factory
\* a step that is a call of operator<<, of operator>>
IsInsert == call'.op = "insert" /\ nstream' = nstream + 1
IsExtract == call'.op = "extract" /\ nstream' = nstream + 1

\* the CDF values of every context in the order of the table, as text
CdfTokens == [q \in 1 .. NCells |-> Format(factory_cdfs_[CellAt(q)])]

\* C19: writing a model that is not finalized sets the failure indicator of
\* the stream, writes nothing and leaves the model unfinalized; writing a
\* finalized model succeeds and writes the CDF values of every context in the
\* order of the table.
C19_InsertNeedsFinalized ==
    [][IsInsert =>
          IF ~factory_finalized_
          THEN oss'.fail /\ oss'.buf = <<>> /\ ~factory_finalized_'
          ELSE ~oss'.fail /\ oss'.buf = CdfTokens]_vars

\* the stream ends before the last value, holds a token that is no number, or
\* holds a value outside [0, 1]
InvalidStream(st) ==
    \/ Len(st.buf) < NCells
    \/ \E k \in 1 .. Len(st.buf) :
          \/ st.buf[k].t = "bad"
          \/ FLess(st.buf[k].v, Zero)
          \/ FLess(One, st.buf[k].v)

\* C20: a read from a stream that is exhausted early, holds a token that is
\* no number or holds a value outside [0, 1], at whatever position, reports
\* failure and leaves the unfinalized destination as it was: no CDF entry
\* overwritten, not finalized.
C20_ExtractAllOrNothing ==
    [][(IsExtract /\ ~factory_finalized_ /\ InvalidStream(iss')) =>
          (iss'.fail /\ factory_cdfs_' = factory_cdfs_ /\ ~factory_finalized_')]_vars

\* a read that met no failure: every value present, a number in [0, 1] and
\* followed by its separator
FullRead(st) == ~InvalidStream(st) /\ st.sp /\ ~st.fail /\ ~st.eof

\* the state right after such a read
AfterFullRead == call.op = "extract" /\ FullRead(iss)

\* C21: a fully successful read stores the values of the stream in the CDF
\* rows and marks the model finalized; a create() that follows uses exactly
\* the values that were read.
C21_ReadFinalizes ==
    /\ [][(IsExtract /\ FullRead(iss')) =>
             /\ \A q \in 1 .. NCells : factory_cdfs_'[CellAt(q)] = iss'.buf[q].v
             /\ factory_finalized_']_vars
    /\ [][(AfterFullRead /\ call'.op = "create") =>
             factory_cdfs_' = factory_cdfs_]_vars

\* C22: writing a finalized model and reading what was written back gives
\* the same CDF value for every context and entry.
C22_RoundTrip ==
    [][(/\ IsExtract
        /\ factory_finalized_
        /\ factory_cdfs_ = factoryFinalizeCdfs(frequencies_)
        /\ oss.buf = insertTokens(frequencies_)
        /\ iss'.buf = oss.buf /\ iss'.sp)
       => factory_cdfs_' = factory_cdfs_]_vars

\* C23: after create() the factory is finalized for good: an analyzeWord or
\* analyzeText call adds nothing to the frequency table and leaves the
\* factory finalized.
C23_CreateFreezes ==
    [][((IsAnalyzeWord \/ IsAnalyzeText) /\ factory_finalized_) =>
          (frequencies_' = frequencies_ /\ factory_finalized_')]_vars

\* the contexts of the factory's tables and the frequency sum of one
Contexts == Index \X Index \X Index
FrequencySum(ctx) == Cumulative(frequencies_, ctx, ALPHABET_SIZE)

\* the CDF of the context is 0 at every alphabet index and 1.0 at the
\* terminator index, so that for every drawn value the first index with a
\* greater cumulative value is the terminator index
TerminatorOnly(ctx) ==
    /\ \A m \in 0 .. (ALPHABET_SIZE - 1) :
          factory_cdfs_[<<ctx[1], ctx[2], ctx[3], m>>] = Zero
    /\ factory_cdfs_[<<ctx[1], ctx[2], ctx[3], TERMINATOR_INDEX>>] = One
    /\ \A u \in Draws :
          {m \in Index : FLess(FromDraw(u), factory_cdfs_[<<ctx[1], ctx[2], ctx[3], m>>])}
             = {TERMINATOR_INDEX}

====
